---- MODULE Spec2Model ----
(***************************************************************************)
(* State-machine model of the search-index builder of extensions/searchv2: *)
(* IndexBuilder (builder.py), WordCollector (collector.py) and the event   *)
(* handlers registered by setup() (__init__.py).                           *)
(*                                                                         *)
(* Document names are modelled as the integers 1..NumDocs (their order is  *)
(* the order sorted() gives the names); words, terms, titles and filenames *)
(* are strings.  Python exceptions are modelled as the "err" field of      *)
(* lastOp, the record of the last call and of how it ended.                *)
(***************************************************************************)
EXTENDS Integers, Sequences, FiniteSets, TLC

VARIABLES
    _titles,         \* IndexBuilder._titles:        docname -> title
    _filenames,      \* IndexBuilder._filenames:     docname -> filename
    _mapping,        \* IndexBuilder._mapping:       term -> set(docname)
    _title_mapping,  \* IndexBuilder._title_mapping: term -> set(docname)
    _stem_cache,     \* IndexBuilder._stem_cache:    word -> stemmed word
    lang,            \* IndexBuilder.lang: the resolved ruleset ("unset" before __init__)
    langcode,        \* the `lang` argument of IndexBuilder.__init__
    languages,       \* sphinx.search.languages: language code -> registered entry
    searchenv,       \* the attribute env.searchv2 read by env_purge_doc
    refed,           \* history: docnames indexed again while still in the store
    lastOp,          \* the last call: operation, arguments, exception raised
    _objtypes,       \* IndexBuilder._objtypes: (domain, type) -> type index
    _objnames,       \* IndexBuilder._objnames: type index -> (domain, type, name)
    domains,         \* env.domains: domain name -> its objects and object types
    returned,        \* what the last call of freeze / get_objects returned
    walked           \* the WordCollector last walked over a tree by its caller

vars == << _titles, _filenames, _mapping, _title_mapping, _stem_cache,
           lang, langcode, languages, searchenv, refed, lastOp,
           _objtypes, _objnames, domains, returned, walked >>

store == << _titles, _filenames, _mapping, _title_mapping >>

\* the type registry that get_objects fills
registry == << _objtypes, _objnames >>

\* what only freeze, get_objects and a walk of the collector write
outputs == << domains, returned, walked >>

----------------------------------------------------------------------------
(* Bounds of the model *)

NumDocs == 2
MaxParts == 2

Docs == 1..NumDocs
\* the (filename, title) arguments feed is called with
FileTitles == {<< "fa", "Ta" >>, << "fb", "Tb" >>}

----------------------------------------------------------------------------
(* Generic helpers for Python dict / list values *)

EmptyDict == [x \in {} |-> x]

Put(f, k, v) == [x \in (DOMAIN f) \cup {k} |-> IF x = k THEN v ELSE f[x]]

Restrict(f, S) == [x \in (DOMAIN f) \cap S |-> f[x]]

Min(S) == CHOOSE x \in S : \A y \in S : x <= y

RECURSIVE sorted(_)
sorted(S) == IF S = {} THEN << >>
             ELSE LET m == Min(S) IN << m >> \o sorted(S \ {m})

SeqRange(s) == {s[i] : i \in DOMAIN s}

\* dict(zip(keys, values)): pairs up to the shorter length, later pairs win
zipdict(keys, values) ==
    LET n == IF Len(keys) < Len(values) THEN Len(keys) ELSE Len(values)
    IN [k \in {keys[i] : i \in 1..n} |->
          values[CHOOSE i \in 1..n : keys[i] = k /\ \A j \in 1..n : keys[j] = k => j <= i]]

----------------------------------------------------------------------------
(* The language ruleset (sphinx.search.SearchLanguage) as feed uses it.   *)
(* split/stem/word_filter are library code; they are modelled by tables   *)
(* over a small vocabulary.                                               *)

RawWords == {"Widgets", "are", "great", "SOS", "the", "secret"}

\* SearchLanguage.stopwords for the vocabulary
stopwords == {"are", "the", "so"}

\* self.lang.stem(word): the stemmer lower-cases and reduces the word
lang_stem(word) ==
    CASE word = "Widgets" -> "widget"
      [] word = "SOS"     -> "so"
      [] OTHER            -> word

\* str.lower() on the stemmer's output (all table outputs are lower-case)
lower(word) ==
    CASE word = "Widgets" -> "widgets"
      [] word = "SOS"     -> "sos"
      [] OTHER            -> word

\* self.lang.word_filter: TRUE = keep the word
word_filter(word) == word \notin stopwords

Terms == RawWords \cup {lower(lang_stem(w)) : w \in RawWords}

----------------------------------------------------------------------------
(* Document trees (docutils nodes).  A node has a kind, the text segments  *)
(* it holds itself (a Text node), its attributes and its children.  A text *)
(* segment is a word that is plain text, or lies inside a <style> or       *)
(* <script> block, or is a markup tag.                                     *)

Seg(t, w) == [t |-> t, w |-> w]

Node(kind, segs, format, name, mlang, content, children) ==
    [kind |-> kind, segs |-> segs, format |-> format, name |-> name,
     mlang |-> mlang, content |-> content, children |-> children]

TextNode(words) ==
    Node("Text", [i \in DOMAIN words |-> Seg("plain", words[i])], {}, "", "None", << >>, << >>)

Element(kind, children) == Node(kind, << >>, {}, "", "None", << >>, children)

TreeWidgets ==
    Element("document",
        << Element("title", << TextNode(<< "Widgets" >>) >>),
           Element("paragraph", << TextNode(<< "Widgets", "are", "great" >>) >>) >>)

TreeSOS ==
    Element("document",
        << Element("title", << TextNode(<< "SOS" >>) >>),
           TextNode(<< "the", "SOS", "great" >>) >>)

TreeComment ==
    Element("document",
        << Element("comment", << TextNode(<< "secret" >>) >>),
           Node("meta", << >>, {}, "keywords", "None", << "great", " Widgets" >>, << >>) >>)

TreeRaw ==
    Element("document",
        << Node("raw", << >>, {"html"}, "", "None", << >>,
                << Node("Text", << Seg("plain", "great"), Seg("script", "secret"),
                                   Seg("tag", "b"), Seg("style", "are"),
                                   Seg("plain", "SOS") >>,
                        {}, "", "None", << >>, << >>) >>),
           Node("raw", << >>, {"latex"}, "", "None", << >>, << TextNode(<< "Widgets" >>) >>) >>)

\* keywords declared for French, and a meta node that is not "keywords"
TreeMetaFr ==
    Element("document",
        << Node("meta", << >>, {}, "keywords", "fr", << "Widgets", " SOS " >>, << >>),
           Node("meta", << >>, {}, "description", "None", << "secret" >>, << >>) >>)

TreeNames == {"widgets", "sos", "comment", "raw", "metafr"}

TreeOf(name) ==
    CASE name = "widgets" -> TreeWidgets
      [] name = "sos"     -> TreeSOS
      [] name = "comment" -> TreeComment
      [] name = "metafr"  -> TreeMetaFr
      [] OTHER            -> TreeRaw

\* Node.astext(): a Text node's own text, an element's children's text joined
RECURSIVE astext(_)
RECURSIVE astext_children(_, _)
astext(node) ==
    IF node.kind = "Text" THEN node.segs ELSE astext_children(node.children, 1)

astext_children(children, i) ==
    IF i > Len(children) THEN << >>
    ELSE astext(children[i]) \o astext_children(children, i + 1)

\* the three re.sub calls of dispatch_visit: <style> blocks, <script> blocks, tags
re_sub_html(segs) == SelectSeq(segs, LAMBDA s : s.t = "plain")

\* self.lang.split(text): the words of the text, in order
lang_split(segs) == [i \in DOMAIN segs |-> segs[i].w]

\* str.strip() on the pieces `keywords.split(',')` gives
strip(piece) ==
    CASE piece = " Widgets" -> "Widgets"
      [] piece = " SOS "    -> "SOS"
      [] OTHER              -> piece

----------------------------------------------------------------------------
(* WordCollector (collector.py) *)

\* WordCollector(*args): __init__(self, document) takes exactly one argument
\* and sets found_words and found_title_words; it sets no lang attribute.
WordCollector(args) ==
    IF Len(args) # 1
    THEN [err |-> "TypeError", haslang |-> FALSE, found_words |-> << >>,
          found_title_words |-> << >>, skip |-> FALSE]
    ELSE [err |-> "", haslang |-> FALSE, found_words |-> << >>,
          found_title_words |-> << >>, skip |-> FALSE]

Raise(col, e) == [col EXCEPT !.err = e]

\* WordCollector.is_meta_keywords; "AttributeError" when self.lang is read
is_meta_keywords(col, node) ==
    IF node.kind = "meta" /\ node.name = "keywords"
    THEN IF node.mlang = "None" THEN "True"
         ELSE IF ~col.haslang THEN "AttributeError"
         ELSE IF node.mlang = lang THEN "True" ELSE "False"
    ELSE "False"

\* WordCollector.dispatch_visit; skip = SkipNode was raised
dispatch_visit(col, node) ==
    IF node.kind = "comment" THEN [col EXCEPT !.skip = TRUE]
    ELSE IF node.kind = "raw" THEN
        IF "html" \in node.format
        THEN IF ~col.haslang THEN Raise(col, "AttributeError")
             ELSE [col EXCEPT !.found_words = @ \o lang_split(re_sub_html(astext(node))),
                              !.skip = TRUE]
        ELSE [col EXCEPT !.skip = TRUE]
    ELSE IF node.kind = "Text" THEN
        IF ~col.haslang THEN Raise(col, "AttributeError")
        ELSE [col EXCEPT !.found_words = @ \o lang_split(astext(node))]
    ELSE IF node.kind = "title" THEN
        IF ~col.haslang THEN Raise(col, "AttributeError")
        ELSE [col EXCEPT !.found_title_words = @ \o lang_split(astext(node))]
    ELSE LET mk == is_meta_keywords(col, node) IN
         IF mk = "AttributeError" THEN Raise(col, "AttributeError")
         ELSE IF mk = "True"
              THEN [col EXCEPT !.found_words =
                        @ \o [i \in DOMAIN node.content |-> strip(node.content[i])]]
         ELSE col

\* faulty variant: a comment node is handled like any other element
dispatch_visit_comments(col, node) ==
    IF node.kind = "comment" THEN col ELSE dispatch_visit(col, node)

\* the visit of one node, as Node.walk calls it
visit(col, node) == dispatch_visit(col, node)

\* Node.walk(visitor): visit the node, then its children unless SkipNode
RECURSIVE walk(_, _)
RECURSIVE walk_children(_, _, _)
walk(node, col) ==
    LET c == visit([col EXCEPT !.skip = FALSE], node) IN
    IF c.err # "" \/ c.skip THEN c
    ELSE walk_children(node.children, 1, c)

walk_children(children, i, col) ==
    IF i > Len(children) \/ col.err # "" THEN col
    ELSE walk_children(children, i + 1, walk(children[i], col))

----------------------------------------------------------------------------
(* IndexBuilder.feed (builder.py) *)

\* faulty variant: the document set of the term is replaced
setdefault_replace(mapping, term, docname) == Put(mapping, term, {docname})

\* mapping.setdefault(term, set()).add(docname)
setdefault_add(mapping, term, docname) ==
    Put(mapping, term, (IF term \in DOMAIN mapping THEN mapping[term] ELSE {}) \cup {docname})

\* the memoized stem() of feed: the new cache
stem_cache_after(cache, word) ==
    IF word \in DOMAIN cache THEN cache ELSE Put(cache, word, lower(lang_stem(word)))

\* faulty variant: a cache hit returns the word itself
stem_cachehit_raw(cache, word) ==
    IF word \in DOMAIN cache THEN word ELSE lower(lang_stem(word))

\* the memoized stem() of feed: the value returned
stem(cache, word) == stem_cache_after(cache, word)[word]

\* faulty variant: the filter lets every word through
_filter_all(word) == TRUE

\* `_filter = self.lang.word_filter`
_filter(word) == word_filter(word)

\* faulty variant: a title word whose stem is filtered out is dropped
title_term_nofallback(cache, word) ==
    LET stemmed_word == stem(cache, word) IN
    IF _filter(stemmed_word) THEN stemmed_word ELSE ""

\* the term a title word is indexed under, "" when it is dropped
title_term(cache, word) ==
    LET stemmed_word == stem(cache, word) IN
    IF _filter(stemmed_word) THEN stemmed_word
    ELSE IF _filter(word) THEN word
    ELSE ""

\* the loop over visitor.found_title_words
RECURSIVE feed_title_words(_, _, _, _, _)
feed_title_words(words, i, tm, cache, docname) ==
    IF i > Len(words) THEN [tm |-> tm, cache |-> cache]
    ELSE LET t == title_term(cache, words[i]) IN
         feed_title_words(words, i + 1,
                          IF t = "" THEN tm ELSE setdefault_add(tm, t, docname),
                          stem_cache_after(cache, words[i]), docname)

\* the term a body word resolves to (the stemmed word, or the raw word)
body_term(cache, word) ==
    LET stemmed_word == stem(cache, word) IN
    IF ~_filter(stemmed_word) /\ _filter(word) THEN word ELSE stemmed_word

\* faulty variant: the body loop without the already_indexed test
RECURSIVE feed_words_nocheck(_, _, _, _, _, _)
feed_words_nocheck(words, i, bm, tm, cache, docname) ==
    IF i > Len(words) THEN [bm |-> bm, cache |-> cache]
    ELSE LET stemmed_word == body_term(cache, words[i])
         IN feed_words_nocheck(words, i + 1,
                               IF _filter(stemmed_word)
                               THEN setdefault_add(bm, stemmed_word, docname) ELSE bm,
                               tm, stem_cache_after(cache, words[i]), docname)

\* the loop over visitor.found_words
RECURSIVE feed_words(_, _, _, _, _, _)
feed_words(words, i, bm, tm, cache, docname) ==
    IF i > Len(words) THEN [bm |-> bm, cache |-> cache]
    ELSE LET stemmed_word == body_term(cache, words[i])
             already_indexed == stemmed_word \in DOMAIN tm /\ docname \in tm[stemmed_word]
         IN feed_words(words, i + 1,
                       IF _filter(stemmed_word) /\ ~already_indexed
                       THEN setdefault_add(bm, stemmed_word, docname) ELSE bm,
                       tm, stem_cache_after(cache, words[i]), docname)

\* `visitor = WordCollector(doctree, self.lang); doctree.walk(visitor)`
collect(doctree) ==
    LET visitor == WordCollector(<< doctree, lang >>) IN
    IF visitor.err # "" THEN visitor ELSE walk(doctree, visitor)

\* a caller of the collector sets the attribute `lang` on it
bind_lang(col) == [col EXCEPT !.haslang = TRUE]

Op(op, docname, keep, once, twords, words, src, tamper, err) ==
    [op |-> op, docname |-> docname, keep |-> keep, once |-> once,
     twords |-> twords, words |-> words, src |-> src, tamper |-> tamper, err |-> err]

\* the body of feed, given what the collector construction and walk produced
feed(docname, filename, title, visitor) ==
    LET t == feed_title_words(visitor.found_title_words, 1, _title_mapping,
                              _stem_cache, docname)
        b == feed_words(visitor.found_words, 1, _mapping, t.tm, t.cache, docname)
    IN /\ _titles' = Put(_titles, docname, title)
       /\ _filenames' = Put(_filenames, docname, filename)
       /\ IF visitor.err # ""
          THEN UNCHANGED << _mapping, _title_mapping, _stem_cache >>
          ELSE /\ _title_mapping' = t.tm
               /\ _mapping' = b.bm
               /\ _stem_cache' = b.cache
       /\ refed' = IF visitor.err = "" /\ docname \in DOMAIN _titles
                   THEN refed \cup {docname} ELSE refed
       /\ lastOp' = Op("feed", docname, {}, FALSE, visitor.found_title_words,
                       visitor.found_words, -1, "", visitor.err)
       /\ UNCHANGED << lang, langcode, languages, searchenv, registry, outputs >>

\* WordCollector(document) constructed and walked over the tree by a caller,
\* with or without a `lang` attribute set on it first
call_walk(tree, bound) ==
    LET made == WordCollector(<< TreeOf(tree) >>)
        col == walk(TreeOf(tree), IF bound THEN bind_lang(made) ELSE made)
    IN /\ walked' = [tree |-> tree, bound |-> bound, col |-> col]
       /\ lastOp' = Op("walk", 0, {}, FALSE, col.found_title_words, col.found_words,
                       -1, "", col.err)
       /\ UNCHANGED << _titles, _filenames, _mapping, _title_mapping, _stem_cache,
                       lang, langcode, languages, searchenv, refed, registry,
                       domains, returned >>

----------------------------------------------------------------------------
(* IndexBuilder.prune (builder.py) *)

\* faulty variant: the document sets are left as they are
intersection_update_skip(mapping, left) == mapping

\* faulty variant: the kept docnames are added to every document set
intersection_update_union(mapping, left) == [k \in DOMAIN mapping |-> mapping[k] \cup left]

\* set.intersection_update(docnames) for each value of a mapping; `left` is
\* what iterating docnames still yields (nothing, once a one-shot iterator
\* has been consumed by the first loop of prune)
intersection_update(mapping, left) == [k \in DOMAIN mapping |-> mapping[k] \cap left]

prune(docnames, once) ==
    LET left == IF once THEN {} ELSE docnames IN
    IF \E d \in docnames : d \in DOMAIN _titles /\ d \notin DOMAIN _filenames
    THEN /\ lastOp' = Op("prune", 0, docnames, once, << >>, << >>, -1, "", "KeyError")
         /\ UNCHANGED << _titles, _filenames, _mapping, _title_mapping, _stem_cache,
                         lang, langcode, languages, searchenv, refed,
                         registry, outputs >>
    ELSE /\ _titles' = Restrict(_titles, docnames)
         /\ _filenames' = Restrict(_filenames, docnames \cap DOMAIN _titles)
         /\ _mapping' = intersection_update(_mapping, left)
         /\ _title_mapping' = intersection_update(_title_mapping, left)
         /\ lastOp' = Op("prune", 0, docnames, once, << >>, << >>, -1, "", "")
         /\ refed' = refed \cap docnames
         /\ UNCHANGED << _stem_cache, lang, langcode, languages, searchenv,
                         registry, outputs >>

----------------------------------------------------------------------------
(* env.domains and IndexBuilder.get_objects (builder.py).  A domain has a  *)
(* set of objects (fullname, dispname, type, docname, anchor, prio) and    *)
(* the set of types it has an ObjType for.  A display name is the sequence *)
(* of its parts between the dots.                                          *)

Obj(fullname, dispname, type, docname, anchor, prio) ==
    [fullname |-> fullname, dispname |-> dispname, type |-> type,
     docname |-> docname, anchor |-> anchor, prio |-> prio]

\* the domains of the environment the index is built for
EnvDomains ==
    ("py" :> [objects |-> {Obj("mod.f", << "mod", "f" >>, "function", 1, "mod.f", 1),
                           Obj("mod.g<T>", << "mod", "g<T>" >>, "class", 2, "mod.g<T>", 0),
                           Obj("mod.hidden", << "mod", "hidden" >>, "function", 1,
                               "mod.hidden", -1)},
              object_types |-> {"function", "class"}])
    @@
    ("std" :> [objects |-> {Obj("opt", << "opt" >>, "cmdoption", 1, "cmdoption-opt", 1),
                            Obj("term", << "term" >>, "term", 2, "term-term", 2),
                            Obj("ghost", << "ghost" >>, "label", 0, "ghost", 1)},
               object_types |-> {"cmdoption", "label"}])

\* the place of a name in the order sorted() gives the names used
name_rank(s) ==
    CASE s = "ghost"      -> 1
      [] s = "mod.f"      -> 2
      [] s = "mod.g<T>"   -> 3
      [] s = "mod.hidden" -> 4
      [] s = "opt"        -> 5
      [] s = "py"         -> 6
      [] s = "std"        -> 7
      [] OTHER            -> 8

\* sorted(...) of a set of names
RECURSIVE sorted_names(_)
sorted_names(S) ==
    IF S = {} THEN << >>
    ELSE LET m == CHOOSE x \in S : \A y \in S : name_rank(x) <= name_rank(y)
         IN << m >> \o sorted_names(S \ {m})

\* the two nested loops of get_objects, flattened: (domainname, object) pairs
\* in the order sorted(domains.items()) / sorted(domain.get_objects()) give
RECURSIVE objects_in_order(_, _, _)
objects_in_order(doms, names, i) ==
    IF i > Len(names) THEN << >>
    ELSE LET domainname == names[i]
             objs == doms[domainname].objects
             fullnames == sorted_names({o.fullname : o \in objs})
         IN [j \in DOMAIN fullnames |->
                [domainname |-> domainname,
                 obj |-> CHOOSE o \in objs : o.fullname = fullnames[j]]]
            \o objects_in_order(doms, names, i + 1)

\* html.escape
html_escape(s) ==
    CASE s = "mod.g<T>" -> "mod.g&lt;T&gt;"
      [] s = "g<T>"     -> "g&lt;T&gt;"
      [] OTHER          -> s

RECURSIVE JoinDot(_)
JoinDot(parts) ==
    IF parts = << >> THEN ""
    ELSE IF Len(parts) = 1 THEN parts[1]
    ELSE parts[1] \o "." \o JoinDot(Tail(parts))

\* dispname.rpartition('.')
rpartition(parts) ==
    [prefix |-> JoinDot(SubSeq(parts, 1, Len(parts) - 1)), name |-> parts[Len(parts)]]

\* str(domain.get_type_name(otype)): the localized name of an object type
get_type_name(type) ==
    CASE type = "function"  -> "Python function"
      [] type = "class"     -> "Python class"
      [] type = "cmdoption" -> "program option"
      [] OTHER              -> "reference label"

\* faulty variant: only the docname test
skipped_docname_only(o, fn2index) == o.docname \notin DOMAIN fn2index

\* the two `continue` tests of get_objects
skipped(o, fn2index) == o.docname \notin DOMAIN fn2index \/ o.prio < 0

\* faulty variant: the index after the next free one
new_typeindex_gap(otypes) == Cardinality(DOMAIN otypes) + 1

\* `typeindex = len(otypes)`
new_typeindex(otypes) == Cardinality(DOMAIN otypes)

RECURSIVE get_objects_loop(_, _, _, _, _, _, _)
get_objects_loop(items, i, fn2index, doms, rv, otypes, onames) ==
    IF i > Len(items) THEN [rv |-> rv, otypes |-> otypes, onames |-> onames]
    ELSE LET domainname == items[i].domainname
             o == items[i].obj
         IN IF skipped(o, fn2index)
            THEN get_objects_loop(items, i + 1, fn2index, doms, rv, otypes, onames)
            ELSE LET fullname == html_escape(o.fullname)
                     dispname == [j \in DOMAIN o.dispname |-> html_escape(o.dispname[j])]
                     part == rpartition(dispname)
                     plist == IF part.prefix \in DOMAIN rv THEN rv[part.prefix] ELSE << >>
                     key == << domainname, o.type >>
                     known == key \in DOMAIN otypes
                     typeindex == IF known THEN otypes[key] ELSE new_typeindex(otypes)
                     otype_name == IF o.type \in doms[domainname].object_types
                                   THEN get_type_name(o.type) ELSE o.type
                     shortanchor == IF o.anchor = fullname THEN ""
                                    ELSE IF o.anchor = o.type \o "-" \o fullname THEN "-"
                                    ELSE o.anchor
                     entry == << fn2index[o.docname], typeindex, o.prio, shortanchor,
                                 part.name >>
                 IN get_objects_loop(items, i + 1, fn2index, doms,
                        Put(rv, part.prefix, Append(plist, entry)),
                        IF known THEN otypes ELSE Put(otypes, key, typeindex),
                        IF known THEN onames
                        ELSE Put(onames, typeindex, << domainname, o.type, otype_name >>))

\* get_objects(fn2index): the catalog rv and the type registry it leaves
get_objects(fn2index) ==
    get_objects_loop(objects_in_order(domains, sorted_names(DOMAIN domains), 1), 1,
                     fn2index, domains, EmptyDict, _objtypes, _objnames)

\* a returned value, with the arguments and the attributes the call read
Ret(op, fn2index, before, doms, value) ==
    [op |-> op, fn2index |-> fn2index, before |-> before, doms |-> doms, value |-> value]

\* what freeze reads of the builder and of the environment
contents == << _titles, _filenames, _mapping, _title_mapping, _objtypes, _objnames, domains >>

\* a direct call of get_objects
call_get_objects(fn2index) ==
    LET out == get_objects(fn2index)
    IN /\ _objtypes' = out.otypes
       /\ _objnames' = out.onames
       /\ returned' = Ret("get_objects", fn2index, registry, domains, out.rv)
       /\ lastOp' = Op("get_objects", 0, {}, FALSE, << >>, << >>, -1, "", "")
       /\ UNCHANGED << _titles, _filenames, _mapping, _title_mapping, _stem_cache,
                       lang, langcode, languages, searchenv, refed, domains, walked >>

----------------------------------------------------------------------------
(* IndexBuilder.get_terms / freeze / dump (builder.py) *)

\* self.env.version
EnvVersion == "v_cur"

Fields == {"docnames", "filenames", "titles", "terms", "titleterms", "envversion"}

\* faulty variant: the positions are counted from 1
fn2index_of_from1(docnames) ==
    [d \in SeqRange(docnames) |-> CHOOSE i \in DOMAIN docnames : docnames[i] = d]

\* {f: i for (i, f) in enumerate(docnames)}
fn2index_of(docnames) ==
    [d \in SeqRange(docnames) |-> (CHOOSE i \in DOMAIN docnames : docnames[i] = d) - 1]

\* one serialized term value: a scalar document index, or a list of them
Scalar(i) == [isint |-> TRUE, ids |-> << i >>]
List(ids) == [isint |-> FALSE, ids |-> ids]

\* faulty variant: every term is written as a list
get_terms_lists(mapping, fn2index) ==
    [k \in DOMAIN mapping |->
        List(sorted({fn2index[fn] : fn \in mapping[k] \cap DOMAIN fn2index}))]

\* get_terms, for one of the two mappings
get_terms(mapping, fn2index) ==
    LET fn_of(k) == CHOOSE fn \in mapping[k] : TRUE
        keys == {k \in DOMAIN mapping :
                    Cardinality(mapping[k]) = 1 => fn_of(k) \in DOMAIN fn2index}
    IN [k \in keys |->
          IF Cardinality(mapping[k]) = 1
          THEN Scalar(fn2index[fn_of(k)])
          ELSE List(sorted({fn2index[fn] : fn \in mapping[k] \cap DOMAIN fn2index}))]

\* freeze() of a store with at least one title
freeze_of(titles, filenames, mapping, title_mapping) ==
    LET docnames == sorted(DOMAIN titles)
        fn2index == fn2index_of(docnames)
    IN [kind |-> "dict",
        present |-> Fields,
        docnames |-> docnames,
        filenames |-> [i \in DOMAIN docnames |->
                          IF docnames[i] \in DOMAIN filenames
                          THEN filenames[docnames[i]] ELSE "None"],
        titles |-> [i \in DOMAIN docnames |-> titles[docnames[i]]],
        terms |-> get_terms(mapping, fn2index),
        titleterms |-> get_terms(title_mapping, fn2index),
        envversion |-> EnvVersion]

\* faulty variant: the unpacking never fails
freeze_err_none == ""

\* `docnames, titles = zip(*sorted(self._titles.items()))` raises ValueError
\* when there is no title
freeze_err == IF DOMAIN _titles = {} THEN "ValueError" ELSE ""

freeze == freeze_of(_titles, _filenames, _mapping, _title_mapping)

\* faulty variant: the registry as it was before get_objects ran
unpopulated(before, after) == before

\* `objects = self.get_objects(fn2index)  # populates _objtypes`: the
\* registry that the next line of freeze reads
populated(before, after) == after

\* {v: k[0] + ':' + k[1] for (k, v) in self._objtypes.items()}
objtypes_of(otypes) ==
    [i \in {otypes[k] : k \in DOMAIN otypes} |->
        LET k == CHOOSE k \in DOMAIN otypes : otypes[k] = i IN k[1] \o ":" \o k[2]]

\* lines 147-149 of freeze: the catalog, the type tables, the registry left
freeze_objects ==
    LET out == get_objects(fn2index_of(sorted(DOMAIN _titles)))
    IN [objects |-> out.rv,
        objtypes |-> objtypes_of(populated(_objtypes, out.otypes)),
        objnames |-> out.onames,
        otypes |-> out.otypes]

\* the dict freeze() returns
freeze_return ==
    LET out == freeze_objects
    IN freeze @@ [objects |-> out.objects, objtypes |-> out.objtypes,
                  objnames |-> out.objnames]

\* a direct call of freeze()
call_freeze ==
    /\ lastOp' = Op("freeze", 0, {}, FALSE, << >>, << >>, -1, "", freeze_err)
    /\ _objtypes' = IF freeze_err = "" THEN freeze_objects.otypes ELSE _objtypes
    /\ _objnames' = IF freeze_err = "" THEN freeze_objects.objnames ELSE _objnames
    /\ returned' = IF freeze_err = ""
                   THEN Ret("freeze", fn2index_of(sorted(DOMAIN _titles)), contents,
                            domains, freeze_return)
                   ELSE Ret("freeze", EmptyDict, contents, domains, [kind |-> freeze_err])
    /\ UNCHANGED << _titles, _filenames, _mapping, _title_mapping, _stem_cache,
                    lang, langcode, languages, searchenv, refed, domains, walked >>

\* dump(stream, 'pickle'): freeze() written to the stream
dump ==
    /\ lastOp' = Op("dump", 0, {}, FALSE, << >>, << >>, -1, "", freeze_err)
    /\ _objtypes' = IF freeze_err = "" THEN freeze_objects.otypes ELSE _objtypes
    /\ _objnames' = IF freeze_err = "" THEN freeze_objects.objnames ELSE _objnames
    /\ UNCHANGED << _titles, _filenames, _mapping, _title_mapping, _stem_cache,
                    lang, langcode, languages, searchenv, refed, outputs >>

----------------------------------------------------------------------------
(* IndexBuilder.load (builder.py) *)

\* faulty variant: a list of indices is read like a scalar, only its first index
load_terms_first(mapping, index2fn) ==
    [k \in DOMAIN mapping |->
        IF mapping[k].ids = << >> THEN {} ELSE {index2fn[mapping[k].ids[1] + 1]}]

\* load_terms, the inner function of load
load_terms(mapping, index2fn) ==
    [k \in DOMAIN mapping |->
        IF mapping[k].isint
        THEN {index2fn[mapping[k].ids[1] + 1]}
        ELSE {index2fn[i + 1] : i \in SeqRange(mapping[k].ids)}]

\* index2fn[i] raises IndexError
load_terms_err(mapping, index2fn) ==
    \E k \in DOMAIN mapping : \E i \in SeqRange(mapping[k].ids) : i >= Len(index2fn)

\* faulty variant: the version tag is not compared
load_outcome_noversion(frozen) ==
    LET has(f) == f \in frozen.present IN
    IF ~has("docnames") \/ ~has("filenames") THEN [n |-> 0, err |-> "KeyError"]
    ELSE IF ~has("titles") THEN [n |-> 1, err |-> "KeyError"]
    ELSE IF ~has("terms") THEN [n |-> 2, err |-> "KeyError"]
    ELSE IF ~has("titleterms") THEN [n |-> 3, err |-> "KeyError"]
    ELSE [n |-> 4, err |-> ""]

\* how far load gets: the number of attributes assigned, and the exception
load_outcome(frozen) ==
    LET has(f) == f \in frozen.present IN
    IF frozen.kind # "dict" \/ ~has("envversion") \/ frozen.envversion # EnvVersion
        THEN [n |-> 0, err |-> "ValueError"]
    ELSE IF ~has("docnames") \/ ~has("filenames") THEN [n |-> 0, err |-> "KeyError"]
    ELSE IF ~has("titles") THEN [n |-> 1, err |-> "KeyError"]
    ELSE IF ~has("terms") THEN [n |-> 2, err |-> "KeyError"]
    ELSE IF load_terms_err(frozen.terms, frozen.docnames) THEN [n |-> 2, err |-> "IndexError"]
    ELSE IF ~has("titleterms") THEN [n |-> 3, err |-> "KeyError"]
    ELSE IF load_terms_err(frozen.titleterms, frozen.docnames)
        THEN [n |-> 3, err |-> "IndexError"]
    ELSE [n |-> 4, err |-> ""]

load(frozen, src, tamper) ==
    LET out == load_outcome(frozen)
        index2fn == frozen.docnames
    IN /\ _filenames' = IF out.n >= 1 THEN zipdict(index2fn, frozen.filenames) ELSE _filenames
       /\ _titles' = IF out.n >= 2 THEN zipdict(index2fn, frozen.titles) ELSE _titles
       /\ _mapping' = IF out.n >= 3 THEN load_terms(frozen.terms, index2fn) ELSE _mapping
       /\ _title_mapping' = IF out.n >= 4 THEN load_terms(frozen.titleterms, index2fn)
                            ELSE _title_mapping
       /\ lastOp' = Op("load", 0, {}, FALSE, << >>, << >>, src, tamper, out.err)
       /\ refed' = {}
       /\ UNCHANGED << _stem_cache, lang, langcode, languages, searchenv,
                       registry, outputs >>

----------------------------------------------------------------------------
(* The streams load is given: the file a dump just wrote, or the file of   *)
(* an earlier build, possibly of another version, damaged or not an index. *)

\* the store of an earlier build over all the documents
EarlierTitles == [d \in Docs |-> IF d = 1 THEN "Ta" ELSE "Tb"]
EarlierFilenames == [d \in Docs |-> IF d = 1 THEN "fa" ELSE "fb"]
EarlierMapping == ("widget" :> Docs) @@ ("great" :> {1}) @@ ("secret" :> {NumDocs})
EarlierTitleMapping == ("SOS" :> {NumDocs}) @@ ("great" :> Docs \ {1})

EarlierSnapshot ==
    freeze_of(EarlierTitles, EarlierFilenames, EarlierMapping, EarlierTitleMapping)

TamperKinds == {"none", "oldversion", "notdict"} \cup {"drop_" \o f : f \in Fields}

Dropped(frozen, f) ==
    [frozen EXCEPT !.present = @ \ {f},
                   !.docnames = IF f = "docnames" THEN << >> ELSE @,
                   !.filenames = IF f = "filenames" THEN << >> ELSE @,
                   !.titles = IF f = "titles" THEN << >> ELSE @,
                   !.terms = IF f = "terms" THEN EmptyDict ELSE @,
                   !.titleterms = IF f = "titleterms" THEN EmptyDict ELSE @,
                   !.envversion = IF f = "envversion" THEN "None" ELSE @]

Tamper(frozen, kind) ==
    IF kind = "none" THEN frozen
    ELSE IF kind = "oldversion" THEN [frozen EXCEPT !.envversion = "v_old"]
    ELSE IF kind = "notdict" THEN [frozen EXCEPT !.kind = "list"]
    ELSE Dropped(frozen, CHOOSE f \in Fields : kind = "drop_" \o f)

\* src = 0: the stream this builder's dump just wrote; src = 1: an earlier build's
Sources == {s \in {0, 1} : s = 0 => freeze_err = ""}

Stream(src) == IF src = 0 THEN freeze ELSE EarlierSnapshot

----------------------------------------------------------------------------
(* The event handlers connected by setup() (__init__.py) *)

\* app.connect(...) calls of setup
connected == {"env-purge-doc"}

env_purge_doc(docname) ==
    /\ "env-purge-doc" \in connected
    /\ searchenv' = IF searchenv.has /\ docname \in searchenv.keys
                    THEN [searchenv EXCEPT !.keys = @ \ {docname}]
                    ELSE searchenv
    /\ lastOp' = Op("env_purge_doc", docname, {}, FALSE, << >>, << >>, -1, "", "")
    /\ UNCHANGED << _titles, _filenames, _mapping, _title_mapping, _stem_cache,
                    lang, langcode, languages, refed, registry, outputs >>

\* the event that hands over the documents read by a parallel worker; setup
\* connects no handler to it and IndexBuilder has no merge operation
env_merge_info(docnames) ==
    /\ "env-merge-info" \notin connected
    /\ lastOp' = Op("env_merge_info", 0, docnames, FALSE, << >>, << >>, -1, "", "")
    /\ UNCHANGED << _titles, _filenames, _mapping, _title_mapping, _stem_cache,
                    lang, langcode, languages, searchenv, refed, registry, outputs >>

----------------------------------------------------------------------------
(* The specifications *)

NoOp == Op("init", 0, {}, FALSE, << >>, << >>, -1, "", "")

NoRet == Ret("none", EmptyDict, << >>, EmptyDict, [kind |-> "None"])

NoWalk == [tree |-> "none", bound |-> FALSE, col |-> WordCollector(<< "none" >>)]

\* no object type seen yet, nothing returned, no collector walked
InitRegistry ==
    /\ _objtypes = EmptyDict
    /\ _objnames = EmptyDict
    /\ returned = NoRet
    /\ walked = NoWalk

\* a builder constructed for the default language, env without searchv2
Init ==
    /\ _titles = EmptyDict
    /\ _filenames = EmptyDict
    /\ _mapping = EmptyDict
    /\ _title_mapping = EmptyDict
    /\ _stem_cache = EmptyDict
    /\ lang = "en"
    /\ langcode = << "en" >>
    /\ languages = EmptyDict
    /\ searchenv = [has |-> FALSE, keys |-> {}]
    /\ refed = {}
    /\ lastOp = NoOp
    /\ InitRegistry
    /\ domains = EmptyDict

Feed ==
    \E d \in Docs, ft \in FileTitles, tree \in TreeNames :
        feed(d, ft[1], ft[2], collect(TreeOf(tree)))

Prune == \E keep \in SUBSET Docs, once \in BOOLEAN : prune(keep, once)

Load == \E src \in Sources, k \in TamperKinds : load(Tamper(Stream(src), k), src, k)

Dump == dump

Next == Feed \/ Prune \/ Load \/ Dump

Spec == Init /\ [][Next]_vars

----------------------------------------------------------------------------
(* feed from the word lists on.  Besides the calls of feed as the code     *)
(* makes them, this specification takes the collector to have found one of *)
(* the word lists below, so that lines 180-203 of feed run on them: its    *)
(* behaviours include every behaviour of feed and prune.                   *)

CollectedTitleWords == { << "Widgets" >>, << "the", "SOS" >> }

CollectedWords == { << "the", "SOS" >>, << "Widgets", "SOS" >> }

Collected(twords, words) ==
    [err |-> "", haslang |-> TRUE, found_words |-> words,
     found_title_words |-> twords, skip |-> FALSE]

FeedCollected ==
    \E d \in Docs, tw \in CollectedTitleWords, w \in CollectedWords :
        feed(d, "fa", "Ta", Collected(tw, w))

NextCollected == FeedCollected \/ Prune

SpecCollected == Init /\ [][NextCollected]_vars

----------------------------------------------------------------------------
(* The build with its lifecycle events: documents are fed and pruned, and  *)
(* the host fires "document purged" and "parallel results ready".          *)

InitEvents ==
    /\ _titles = EmptyDict
    /\ _filenames = EmptyDict
    /\ _mapping = EmptyDict
    /\ _title_mapping = EmptyDict
    /\ _stem_cache = EmptyDict
    /\ lang = "en"
    /\ langcode = << "en" >>
    /\ languages = EmptyDict
    /\ searchenv \in {[has |-> FALSE, keys |-> {}], [has |-> TRUE, keys |-> Docs]}
    /\ refed = {}
    /\ lastOp = NoOp
    /\ InitRegistry
    /\ domains = EmptyDict

PurgeDoc == \E d \in Docs : env_purge_doc(d)

MergeInfo == \E ds \in SUBSET Docs : env_merge_info(ds)

NextEvents == Feed \/ Prune \/ PurgeDoc \/ MergeInfo

SpecEvents == InitEvents /\ [][NextEvents]_vars

----------------------------------------------------------------------------
(* IndexBuilder.__init__: the resolution of the language ruleset.  A       *)
(* language code is the sequence of its parts between the '_' separators;  *)
(* the registry maps a code to a class or to the dotted path of a class.   *)

LangParts == {"xx", "YY", "fr"}

RECURSIVE Join(_)
Join(parts) ==
    IF Len(parts) = 1 THEN parts[1]
    ELSE parts[1] \o "_" \o Join(Tail(parts))

LangCodes == UNION {[1..n -> LangParts] : n \in 1..MaxParts}

\* the codes a ruleset may be registered for
RegisteredCodes == {"xx", "fr", "xx_YY"}

Registries ==
    UNION {[codes -> {[kind |-> "class"], [kind |-> "path"]}] : codes \in SUBSET RegisteredCodes}

\* languages.get(code)
languages_get(code) ==
    IF code \in DOMAIN languages
    THEN [none |-> FALSE, kind |-> languages[code].kind, ruleset |-> code]
    ELSE [none |-> TRUE, kind |-> "", ruleset |-> ""]

\* faulty variant: no second lookup with the part before the first '_'
resolve_lang_nofallback(code) ==
    LET lang_class == languages_get(Join(code))
    IN IF lang_class.none THEN "en" ELSE lang_class.ruleset

\* lines 38-52: the ruleset self.lang is set to
resolve_lang(code) ==
    LET first == languages_get(Join(code))
        lang_class == IF first.none /\ Len(code) > 1
                      THEN languages_get(code[1])
                      ELSE first
    IN IF lang_class.none THEN "en"
       ELSE IF lang_class.kind = "path" THEN lang_class.ruleset
       ELSE lang_class.ruleset

IndexBuilder_init ==
    /\ lang = "unset"
    /\ lang' = resolve_lang(langcode)
    /\ lastOp' = Op("__init__", 0, {}, FALSE, << >>, << >>, -1, "", "")
    /\ UNCHANGED << _titles, _filenames, _mapping, _title_mapping, _stem_cache,
                    langcode, languages, searchenv, refed, registry, outputs >>

InitLang ==
    /\ _titles = EmptyDict
    /\ _filenames = EmptyDict
    /\ _mapping = EmptyDict
    /\ _title_mapping = EmptyDict
    /\ _stem_cache = EmptyDict
    /\ lang = "unset"
    /\ langcode \in LangCodes
    /\ languages \in Registries
    /\ searchenv = [has |-> FALSE, keys |-> {}]
    /\ refed = {}
    /\ lastOp = NoOp
    /\ InitRegistry
    /\ domains = EmptyDict

NextLang == IndexBuilder_init

SpecLang == InitLang /\ [][NextLang]_vars

----------------------------------------------------------------------------
(* Dump and reload: documents are fed (from the word lists on) and pruned, *)
(* the index is dumped, and the dumped stream is loaded again.             *)

LoadDumped == freeze_err = "" /\ load(freeze, 0, "none")

NextRoundTrip == FeedCollected \/ Prune \/ Dump \/ LoadDumped

SpecRoundTrip == Init /\ [][NextRoundTrip]_vars

\* the store load builds from a well-formed snapshot
loaded_store(frozen) ==
    << zipdict(frozen.docnames, frozen.titles),
       zipdict(frozen.docnames, frozen.filenames),
       load_terms(frozen.terms, frozen.docnames),
       load_terms(frozen.titleterms, frozen.docnames) >>

----------------------------------------------------------------------------
(* The object catalog: an environment with two cross-reference domains;    *)
(* documents are fed and pruned, an earlier build's index is loaded, and   *)
(* freeze() and get_objects() are called directly.                         *)

InitObjects ==
    /\ _titles = EmptyDict
    /\ _filenames = EmptyDict
    /\ _mapping = EmptyDict
    /\ _title_mapping = EmptyDict
    /\ _stem_cache = EmptyDict
    /\ lang = "en"
    /\ langcode = << "en" >>
    /\ languages = EmptyDict
    /\ searchenv = [has |-> FALSE, keys |-> {}]
    /\ refed = {}
    /\ lastOp = NoOp
    /\ InitRegistry
    /\ domains = EnvDomains

\* the fn2index arguments get_objects is called with
Fn2Indexes ==
    {fn2index_of(sorted(S)) : S \in SUBSET Docs} \cup {fn2index_of(<< 2, 1 >>)}

FeedTitle == \E d \in Docs : feed(d, "fa", "Ta", collect(TreeWidgets))

LoadEarlier == load(EarlierSnapshot, 1, "none")

Freeze == call_freeze

GetObjects == \E fn2index \in Fn2Indexes : call_get_objects(fn2index)

PruneKeep == \E keep \in SUBSET Docs : prune(keep, FALSE)

NextObjects == FeedTitle \/ PruneKeep \/ LoadEarlier \/ Freeze \/ GetObjects

SpecObjects == InitObjects /\ [][NextObjects]_vars

----------------------------------------------------------------------------
(* The collector on its own: a caller constructs WordCollector(document),  *)
(* walks it over a tree, and lines 180-203 of feed run on the word lists   *)
(* of a walk that ended without an exception.                              *)

ActiveLangs == {"en", "fr"}

InitWalk ==
    /\ _titles = EmptyDict
    /\ _filenames = EmptyDict
    /\ _mapping = EmptyDict
    /\ _title_mapping = EmptyDict
    /\ _stem_cache = EmptyDict
    /\ lang \in ActiveLangs
    /\ langcode = << lang >>
    /\ languages = EmptyDict
    /\ searchenv = [has |-> FALSE, keys |-> {}]
    /\ refed = {}
    /\ lastOp = NoOp
    /\ InitRegistry
    /\ domains = EmptyDict

Walk == \E tree \in TreeNames, bound \in BOOLEAN : call_walk(tree, bound)

FeedWalked ==
    /\ walked.tree # "none"
    /\ walked.col.err = ""
    /\ \E d \in Docs : feed(d, "fa", "Ta", walked.col)

NextWalk == Walk \/ FeedWalked

SpecWalk == InitWalk /\ [][NextWalk]_vars

----------------------------------------------------------------------------
(* Properties *)

DocsOf(mapping) == UNION {mapping[t] : t \in DOMAIN mapping}

\* the word's stem is filtered out while the word itself is not
NeedsFallback(word) == ~word_filter(lower(lang_stem(word))) /\ word_filter(word)

Maps(mapping, term, d) == term \in DOMAIN mapping /\ d \in mapping[term]

\* C1: after prune(keep) has returned, no document outside keep has a title
\* or a filename, and no term of either mapping maps to such a document.
C1_PruneRemovesStale ==
    (lastOp.op = "prune" /\ lastOp.err = "") =>
        /\ DOMAIN _titles \subseteq lastOp.keep
        /\ DOMAIN _filenames \subseteq lastOp.keep
        /\ DocsOf(_mapping) \subseteq lastOp.keep
        /\ DocsOf(_title_mapping) \subseteq lastOp.keep

\* C1 witness: prune({1}) returned on a loaded index: document 1 is still
\* mapped, and a title term lost all its documents.
C1_Witness ==
    /\ lastOp.op = "prune" /\ lastOp.err = "" /\ ~lastOp.once /\ lastOp.keep = {1}
    /\ DOMAIN _titles = {1}
    /\ \E t \in DOMAIN _mapping : _mapping[t] = {1}
    /\ \E t \in DOMAIN _title_mapping : _title_mapping[t] = {}

C4_KeysPassFilter ==
    \A t \in (DOMAIN _mapping) \cup (DOMAIN _title_mapping) : word_filter(t)

\* C4 witness: the stop word "the" was collected from a title and from a
\* body, and the other words of the two lists are indexed.
C4_Witness ==
    /\ lastOp.op = "feed" /\ lastOp.err = ""
    /\ lastOp.twords = << "the", "SOS" >>
    /\ lastOp.words = << "the", "SOS" >>
    /\ ~word_filter("the")
    /\ Maps(_title_mapping, "SOS", lastOp.docname)

\* C5 (as amended): for every store that holds at least one document,
\* load() of the dumped freeze() succeeds and builds titles, filenames, body
\* mapping and title mapping identical to those of the store.
C5_RoundTripNonEmpty ==
    DOMAIN _titles # {} =>
        /\ freeze_err = ""
        /\ load_outcome(freeze).err = ""
        /\ loaded_store(freeze) = store

\* C5 witness: the dumped stream of a store with two documents was loaded;
\* the store has a term with one document, one with two and one with none.
C5_Witness ==
    /\ lastOp.op = "load" /\ lastOp.src = 0 /\ lastOp.err = ""
    /\ Cardinality(DOMAIN _titles) >= 2
    /\ \E t \in DOMAIN _title_mapping : Cardinality(_title_mapping[t]) = 1
    /\ \E t \in DOMAIN _mapping : Cardinality(_mapping[t]) >= 2
    /\ \E t \in DOMAIN _mapping : _mapping[t] = {}

\* C5 as stated: for every store state reachable by feed and prune, the
\* dump succeeds and load() of it builds a store identical to the original.
C5_RoundTripEveryStore ==
    /\ freeze_err = ""
    /\ load_outcome(freeze).err = ""
    /\ loaded_store(freeze) = store

\* C6: a load of a stream that is not a snapshot container, or whose version
\* tag is missing or differs from the builder's, raises the format error
\* (ValueError) and leaves titles, filenames and both mappings as they were.
C6_VersionMismatchRejected ==
    [][(lastOp'.op = "load" /\ lastOp'.tamper \in {"oldversion", "notdict", "drop_envversion"})
          => (lastOp'.err = "ValueError" /\ store' = store)]_vars

\* C6 witness: an earlier build's snapshot of another version was rejected
\* by a builder holding only document 1; nothing of the snapshot was loaded.
C6_Witness ==
    /\ lastOp.op = "load" /\ lastOp.tamper = "oldversion" /\ lastOp.src = 1
    /\ lastOp.err = "ValueError"
    /\ DOMAIN _titles = {1}
    /\ _mapping = EmptyDict
    /\ EarlierSnapshot.envversion = EnvVersion

\* C7 as stated: a load of a snapshot of the right version that lacks one of
\* docnames, filenames, titles, terms, titleterms raises the format error
\* (ValueError), as a version mismatch does.
C7_MissingFieldIsFormatError ==
    (lastOp.op = "load" /\ lastOp.tamper \in {"drop_docnames", "drop_filenames",
                                               "drop_titles", "drop_terms",
                                               "drop_titleterms"})
        => lastOp.err = "ValueError"

\* C8 as stated: when the results of a parallel worker arrive, documents
\* disjoint from the store's are added to it (the union), and documents the
\* store already holds are flagged with an error, the store left as it was.
C8_MergeUnionOrConflict ==
    [][lastOp'.op = "env_merge_info" =>
          IF lastOp'.keep \cap DOMAIN _titles = {}
          THEN lastOp'.err = "" /\ DOMAIN _titles' = (DOMAIN _titles) \cup lastOp'.keep
          ELSE lastOp'.err # "" /\ store' = store]_vars

\* C9: __init__ never raises and resolves the ruleset in three tiers: the
\* exact code if registered; else, if the code has a '_', the part before
\* the first '_' if registered; else the default English ruleset.
C9_LanguageResolution ==
    lastOp.op = "__init__" =>
        /\ lastOp.err = ""
        /\ lang = IF Join(langcode) \in DOMAIN languages THEN Join(langcode)
                  ELSE IF Len(langcode) > 1 /\ langcode[1] \in DOMAIN languages
                       THEN langcode[1]
                  ELSE "en"

\* C9 witness: "xx_YY" is not registered and "xx" is: the builder got "xx".
C9_Witness ==
    /\ lastOp.op = "__init__"
    /\ langcode = << "xx", "YY" >>
    /\ "xx_YY" \notin DOMAIN languages
    /\ "xx" \in DOMAIN languages
    /\ lang = "xx"

\* C10 as stated: after the "document purged" handler has returned for
\* docname d, d has no title and no filename, and no term maps to d.
C10_PurgeRemovesDoc ==
    lastOp.op = "env_purge_doc" =>
        /\ lastOp.docname \notin DOMAIN _titles
        /\ lastOp.docname \notin DOMAIN _filenames
        /\ lastOp.docname \notin DocsOf(_mapping) \cup DocsOf(_title_mapping)

RECURSIVE all_words(_)
all_words(node) ==
    {node.segs[i].w : i \in DOMAIN node.segs}
    \cup {strip(node.content[i]) : i \in DOMAIN node.content}
    \cup UNION {all_words(node.children[i]) : i \in DOMAIN node.children}

\* the words written inside a comment node of the tree
RECURSIVE comment_words(_)
comment_words(node) ==
    IF node.kind = "comment" THEN all_words(node)
    ELSE UNION {comment_words(node.children[i]) : i \in DOMAIN node.children}

\* the words written outside every comment node of the tree
RECURSIVE outside_words(_)
outside_words(node) ==
    IF node.kind = "comment" THEN {}
    ELSE {node.segs[i].w : i \in DOMAIN node.segs}
         \cup {strip(node.content[i]) : i \in DOMAIN node.content}
         \cup UNION {outside_words(node.children[i]) : i \in DOMAIN node.children}

\* the terms feed can index a word under
TermsOf(word) == {word, lower(lang_stem(word))}

\* C12: the words that a tree holds in comment nodes only are in neither
\* word sequence of a collector walked over the tree; and after feed has run
\* on these sequences for a docname not indexed before, no term of such a
\* word maps to the docname in either mapping.
C12_CommentsSkipped ==
    walked.tree # "none" =>
        LET hidden == comment_words(TreeOf(walked.tree)) \ outside_words(TreeOf(walked.tree))
        IN /\ hidden \cap SeqRange(walked.col.found_words) = {}
           /\ hidden \cap SeqRange(walked.col.found_title_words) = {}
           /\ (lastOp.op = "feed" /\ lastOp.docname \notin refed) =>
                 \A w \in hidden : \A t \in TermsOf(w) :
                     /\ ~Maps(_mapping, t, lastOp.docname)
                     /\ ~Maps(_title_mapping, t, lastOp.docname)

\* C12 witness: a collector with its ruleset was walked over the tree whose
\* comment holds "secret", and feed indexed the keywords found next to it.
C12_Witness ==
    /\ lastOp.op = "feed" /\ lastOp.err = "" /\ lastOp.docname \notin refed
    /\ walked.tree = "comment" /\ walked.bound
    /\ "secret" \in comment_words(TreeOf(walked.tree))
    /\ walked.col.found_words = << "great", "Widgets" >>
    /\ Maps(_mapping, "great", lastOp.docname)
    /\ Maps(_mapping, "widget", lastOp.docname)

\* C13 as stated: after a collector was walked over the tree with a raw html
\* node (text, a script block, a tag, a style block, text) and a raw latex
\* node, the body words are the text around the blocks of the html node, in
\* order, and nothing of the latex node or of the blocks.
C13_RawHtmlCollected ==
    walked.tree = "raw" =>
        /\ walked.col.found_words = << "great", "SOS" >>
        /\ walked.col.found_title_words = << >>

\* the meta "keywords" node of a tree that has one
MetaNode(tree) ==
    LET c == TreeOf(tree).children
    IN c[CHOOSE i \in DOMAIN c : c[i].kind = "meta" /\ c[i].name = "keywords"]

\* C14 as stated: after a collector was walked over a tree whose only
\* collectable content is a meta "keywords" node, the body words are its
\* trimmed keywords if the node's lang is unset or is the active language,
\* and no word otherwise.
C14_MetaKeywordsByLanguage ==
    walked.tree \in {"comment", "metafr"} =>
        LET node == MetaNode(walked.tree)
        IN walked.col.found_words =
              IF node.mlang = "None" \/ node.mlang = lang
              THEN [i \in DOMAIN node.content |-> strip(node.content[i])]
              ELSE << >>

\* the words of the title nodes of a tree, in order
RECURSIVE title_text(_)
RECURSIVE title_text_children(_, _)
title_text(node) ==
    IF node.kind = "title" THEN lang_split(astext(node))
    ELSE title_text_children(node.children, 1)

title_text_children(children, i) ==
    IF i > Len(children) THEN << >>
    ELSE title_text(children[i]) \o title_text_children(children, i + 1)

\* the words of the Text nodes of a tree that are not part of a title node
RECURSIVE plain_text(_)
RECURSIVE plain_text_children(_, _)
plain_text(node) ==
    IF node.kind = "title" THEN << >>
    ELSE IF node.kind = "Text" THEN lang_split(astext(node))
    ELSE plain_text_children(node.children, 1)

plain_text_children(children, i) ==
    IF i > Len(children) THEN << >>
    ELSE plain_text(children[i]) \o plain_text_children(children, i + 1)

\* C15 as stated: when a collector that has its ruleset was walked over a
\* tree of title and text nodes, the title-word sequence holds the words of
\* the title nodes and the body-word sequence holds the words of the plain
\* text nodes, and not those of the title nodes.
C15_TitleWordsNotBodyWords ==
    (walked.tree \in {"widgets", "sos"} /\ walked.bound) =>
        /\ walked.col.err = ""
        /\ walked.col.found_title_words = title_text(TreeOf(walked.tree))
        /\ walked.col.found_words = plain_text(TreeOf(walked.tree))

C17_ScalarOrList ==
    freeze_err = "" =>
        LET frozen == freeze
            fn2index == fn2index_of(frozen.docnames)
            Compact(mapping, terms) ==
                \A t \in DOMAIN mapping :
                    Cardinality(mapping[t]) >= 1 =>
                        /\ t \in DOMAIN terms
                        /\ terms[t].isint <=> Cardinality(mapping[t]) = 1
                        /\ Len(terms[t].ids) = Cardinality(mapping[t])
                        /\ SeqRange(terms[t].ids) = {fn2index[d] : d \in mapping[t]}
                        /\ load_terms(terms, frozen.docnames)[t] = mapping[t]
        IN /\ Compact(_mapping, frozen.terms)
           /\ Compact(_title_mapping, frozen.titleterms)

\* C17 witness: the index was dumped with a body term of one document and a
\* title term of two documents, the second document's index being 1.
C17_Witness ==
    /\ lastOp.op = "dump" /\ lastOp.err = ""
    /\ \E t \in DOMAIN _mapping : _mapping[t] = {2} /\ freeze.terms[t] = Scalar(1)
    /\ \E t \in DOMAIN _title_mapping :
          _title_mapping[t] = {1, 2} /\ freeze.titleterms[t] = List(<< 0, 1 >>)

\* the (prefix, position) places of the entries of a catalog
EntryPlaces(rv) == UNION {{<< prefix, i >> : i \in DOMAIN rv[prefix]} : prefix \in DOMAIN rv}

\* the (domain name, object) pairs of the domains
DomainObjects(doms) == UNION {{<< dn, o >> : o \in doms[dn].objects} : dn \in DOMAIN doms}

\* entry `place` of the catalog is the entry of object q
IsEntryOf(rv, place, q, fn2index) ==
    LET e == rv[place[1]][place[2]]
        o == q[2]
    IN /\ place[1] = JoinDot([j \in 1..(Len(o.dispname) - 1) |-> html_escape(o.dispname[j])])
       /\ e[5] = html_escape(o.dispname[Len(o.dispname)])
       /\ e[1] = fn2index[o.docname]
       /\ e[3] = o.prio
       /\ << q[1], o.type >> \in DOMAIN _objtypes
       /\ e[2] = _objtypes[<< q[1], o.type >>]

\* C18: the catalog get_objects(fn2index) returned has an entry for an
\* object exactly when the object's document is a key of fn2index and its
\* priority is not negative; the document index of every entry is fn2index
\* of the object's document; and the domains are what they were at the call.
C18_CatalogRestricted ==
    returned.op = "get_objects" =>
        LET rv == returned.value
            fn2index == returned.fn2index
            listed == {q \in DomainObjects(returned.doms) :
                          q[2].docname \in DOMAIN fn2index /\ q[2].prio >= 0}
        IN /\ Cardinality(EntryPlaces(rv)) = Cardinality(listed)
           /\ \A q \in listed : \E place \in EntryPlaces(rv) : IsEntryOf(rv, place, q, fn2index)
           /\ \A place \in EntryPlaces(rv) : \E q \in listed : IsEntryOf(rv, place, q, fn2index)
           /\ domains = returned.doms

\* C18 witness: get_objects was called with document 1 only: the catalog has
\* the function of document 1 under "mod" and its option under "", and
\* neither the suppressed function nor the objects of document 2.
C18_Witness ==
    /\ returned.op = "get_objects" /\ lastOp.op = "get_objects"
    /\ DOMAIN returned.fn2index = {1}
    /\ DOMAIN returned.value = {"mod", ""}
    /\ Len(returned.value["mod"]) = 1
    /\ \E q \in DomainObjects(domains) : q[2].docname = 1 /\ q[2].prio < 0
    /\ \E q \in DomainObjects(domains) : q[2].docname = 2 /\ q[2].prio >= 0

\* C19: type registry density.  In every state the indices of _objtypes are
\* exactly 0..n-1 for its n (domain, type) pairs, _objnames has exactly
\* these indices and names the pair of each; and no step changes or removes
\* the index of a pair.
C19_RegistryDense ==
    /\ [](LET n == Cardinality(DOMAIN _objtypes)
          IN /\ {_objtypes[k] : k \in DOMAIN _objtypes} = 0..(n - 1)
             /\ DOMAIN _objnames = 0..(n - 1)
             /\ \A k \in DOMAIN _objtypes :
                   _objnames[_objtypes[k]][1] = k[1] /\ _objnames[_objtypes[k]][2] = k[2])
    /\ [][\A k \in DOMAIN _objtypes :
             k \in DOMAIN _objtypes' /\ _objtypes'[k] = _objtypes[k]]_vars

\* C19 witness: the types of document 2 were registered first (0, 1), the
\* types of document 1 by a later call (2, 3).
C19_Witness ==
    /\ lastOp.op \in {"freeze", "get_objects"}
    /\ Cardinality(DOMAIN _objtypes) = 4
    /\ _objtypes[<< "py", "class" >>] = 0
    /\ _objtypes[<< "py", "function" >>] = 2
    /\ _objnames[1] = << "std", "term", "term" >>

\* C20 as stated: a call of prune(keep) leaves the title and the filename of
\* every kept document of the store as they were, a kept document is in the
\* document set of a term after the call exactly when it was before, and no
\* document is added to the titles, the filenames or a document set.
C20_PruneKeepsKept ==
    [][lastOp'.op = "prune" =>
          /\ \A d \in lastOp'.keep \cap DOMAIN _titles :
                /\ d \in DOMAIN _titles' /\ _titles'[d] = _titles[d]
                /\ d \in DOMAIN _filenames => (d \in DOMAIN _filenames'
                                               /\ _filenames'[d] = _filenames[d])
                /\ \A t \in DOMAIN _mapping : d \in _mapping'[t] <=> d \in _mapping[t]
                /\ \A t \in DOMAIN _title_mapping :
                      d \in _title_mapping'[t] <=> d \in _title_mapping[t]
          /\ DOMAIN _titles' \subseteq DOMAIN _titles
          /\ DOMAIN _filenames' \subseteq DOMAIN _filenames
          /\ DOMAIN _mapping' = DOMAIN _mapping
          /\ DOMAIN _title_mapping' = DOMAIN _title_mapping
          /\ \A t \in DOMAIN _mapping : _mapping'[t] \subseteq _mapping[t]
          /\ \A t \in DOMAIN _title_mapping : _title_mapping'[t] \subseteq _title_mapping[t]]_vars

\* C21: feed only adds index entries.  In a call of feed every term of the
\* body mapping and of the title mapping stays a term, and every document of
\* its document set stays in it.
C21_FeedOnlyAdds ==
    [][lastOp'.op = "feed" =>
          /\ \A t \in DOMAIN _mapping :
                t \in DOMAIN _mapping' /\ _mapping[t] \subseteq _mapping'[t]
          /\ \A t \in DOMAIN _title_mapping :
                t \in DOMAIN _title_mapping' /\ _title_mapping[t] \subseteq _title_mapping'[t]]_vars

\* C21 witness: a docname was fed again with another title without a prune
\* in between: it is mapped under the title term of its old content ("SOS")
\* and under that of its new content ("widget"), next to another document.
C21_Witness ==
    /\ lastOp.op = "feed" /\ lastOp.err = "" /\ lastOp.docname \in refed
    /\ lastOp.twords = << "Widgets" >>
    /\ Maps(_title_mapping, "widget", lastOp.docname)
    /\ Maps(_title_mapping, "SOS", lastOp.docname)
    /\ \E d \in Docs \ {lastOp.docname} : Maps(_title_mapping, "SOS", d)

\* C22 as stated: a call of load that raises leaves titles, filenames, body
\* mapping and title mapping as they were before the call.
C22_FailedLoadChangesNothing ==
    [][(lastOp'.op = "load" /\ lastOp'.err # "") => store' = store]_vars

\* C23: referential integrity.  In every store reached from the empty store
\* by feed and prune, titles and filenames have the same docnames, and every
\* document of a document set of either mapping has a title and a filename.
C23_ReferentialIntegrity ==
    /\ DOMAIN _titles = DOMAIN _filenames
    /\ DocsOf(_mapping) \subseteq DOMAIN _titles
    /\ DocsOf(_title_mapping) \subseteq DOMAIN _titles

\* C23 witness: of two indexed documents prune kept the second one: it alone
\* has a title and a filename, and the terms map to it alone.
C23_Witness ==
    /\ lastOp.op = "prune" /\ lastOp.err = "" /\ ~lastOp.once
    /\ lastOp.keep = Docs \ {1}
    /\ DOMAIN _titles = {2} /\ DOMAIN _filenames = {2}
    /\ DocsOf(_mapping) = {2} /\ DocsOf(_title_mapping) = {2}
    /\ \E t \in DOMAIN _title_mapping : _title_mapping[t] = {}

\* a list of numbers is ascending and has no duplicates
Ascending(s) == \A i, j \in DOMAIN s : i < j => s[i] < s[j]

\* C24: the snapshot freeze() builds of a store with at least one document
\* has its docnames in strictly ascending order, filenames and titles as
\* long as docnames, position i being the filename and title of docnames[i],
\* every document index of both term mappings a position of docnames, and
\* every list of indices ascending without duplicates.
C24_SnapshotWellFormed ==
    DOMAIN _titles # {} =>
        LET frozen == freeze
            n == Len(frozen.docnames)
            WellFormed(terms) ==
                \A t \in DOMAIN terms :
                    /\ \A i \in DOMAIN terms[t].ids : terms[t].ids[i] \in 0..(n - 1)
                    /\ Ascending(terms[t].ids)
        IN /\ freeze_err = ""
           /\ Ascending(frozen.docnames)
           /\ SeqRange(frozen.docnames) = DOMAIN _titles
           /\ Len(frozen.filenames) = n /\ Len(frozen.titles) = n
           /\ \A i \in 1..n :
                 /\ frozen.docnames[i] \in DOMAIN _filenames
                 /\ frozen.filenames[i] = _filenames[frozen.docnames[i]]
                 /\ frozen.titles[i] = _titles[frozen.docnames[i]]
           /\ WellFormed(frozen.terms)
           /\ WellFormed(frozen.titleterms)

\* C24 witness: the index of two documents was dumped; a body term holds the
\* list of both positions and a title term the last position.
C24_Witness ==
    /\ lastOp.op = "dump" /\ lastOp.err = ""
    /\ freeze.docnames = << 1, 2 >>
    /\ Len(freeze.titles) = 2
    /\ \E t \in DOMAIN freeze.terms : freeze.terms[t] = List(<< 0, 1 >>)
    /\ \E t \in DOMAIN freeze.titleterms : freeze.titleterms[t] = Scalar(1)

\* C25: after a call of freeze() on a store without documents, the call has
\* raised an error and returned no snapshot, and titles, filenames and both
\* mappings are what they were before the call.
C25_FreezeEmptyStoreFails ==
    (lastOp.op = "freeze" /\ returned.op = "freeze" /\ DOMAIN returned.before[1] = {}) =>
        /\ lastOp.err # ""
        /\ returned.value.kind # "dict"
        /\ _titles = returned.before[1]
        /\ _filenames = returned.before[2]
        /\ _mapping = returned.before[3]
        /\ _title_mapping = returned.before[4]

\* C25 witness: freeze() raised on a store from which prune had removed
\* every document: the terms of the loaded index are left, with no document.
C25_Witness ==
    /\ lastOp.op = "freeze" /\ lastOp.err = "ValueError"
    /\ returned.op = "freeze" /\ returned.value.kind = "ValueError"
    /\ _titles = EmptyDict
    /\ _mapping # EmptyDict
    /\ DocsOf(_mapping) = {}

\* C26: feed is idempotent for identical input.  A call of feed right after
\* a call of feed with the same docname, the same filename and title and
\* the same collected words leaves titles, filenames and both mappings as
\* the first call left them.
C26_FeedIdempotent ==
    [][(/\ lastOp.op = "feed" /\ lastOp'.op = "feed"
        /\ lastOp'.docname = lastOp.docname
        /\ lastOp'.twords = lastOp.twords /\ lastOp'.words = lastOp.words
        /\ _titles'[lastOp.docname] = _titles[lastOp.docname]
        /\ _filenames'[lastOp.docname] = _filenames[lastOp.docname])
          => store' = store]_vars

\* the terms under which a mapping holds a document
TermsFor(mapping, d) == {t \in DOMAIN mapping : d \in mapping[t]}

\* C26 witness: a docname was fed again while in the store and holds exactly
\* the terms of the words last fed: title term "widget", body term "SOS".
C26_Witness ==
    /\ lastOp.op = "feed" /\ lastOp.err = "" /\ lastOp.docname \in refed
    /\ lastOp.twords = << "Widgets" >> /\ lastOp.words = << "Widgets", "SOS" >>
    /\ TermsFor(_title_mapping, lastOp.docname) = {"widget"}
    /\ TermsFor(_mapping, lastOp.docname) = {"SOS"}
    /\ "Widgets" \in DOMAIN _stem_cache

====
